---- MODULE Spec2Model ----
(***************************************************************************)
(* Model of plot.py (turbulenzspektren): the multi-window averaging and    *)
(* error evaluator plot_avg, the window-function plot plot_win, and the    *)
(* signal-processing functions of process.py they call (detrend_signal,    *)
(* roll_mean, taper_signal).                                               *)
(*                                                                         *)
(* Numbers.  The program computes in float64.  The model computes in fixed *)
(* point: an integer v stands for the real v / Scale, every division       *)
(* rounds to the nearest integer (ties to even), and np.round(., 2) yields *)
(* a number of hundredths, and x/0 is nan or inf.                           *)
(***************************************************************************)
EXTENDS Integers, Sequences, FiniteSets, TLC

\* ------------------------------------------------------------------ bounds
\* Fixed-point resolution of the model's float64 values.
Scale == 200
\* Largest raw sample value of an input series.
MaxVal == 500
\* Length of the long input series (more than one minute of 1 Hz samples).
MaxLen == 62
\* Series of 0..ShortLen samples are the degenerate inputs.
ShortLen == 2

\* --------------------------------------------------------------- arithmetic
Abs(a) == IF a < 0 THEN -a ELSE a

Min2(a, b) == IF a <= b THEN a ELSE b

\* p / q rounded to the nearest integer, ties to even (q # 0): IEEE division
\* followed by the representation's rounding, and np.round's tie rule.
RoundDiv(p, q) ==
    LET pp == IF q < 0 THEN -p ELSE p
        qq == Abs(q)
        f  == pp \div qq
        r  == pp - f * qq
    IN  IF 2 * r < qq THEN f
        ELSE IF 2 * r > qq THEN f + 1
        ELSE IF f % 2 = 0 THEN f ELSE f + 1

\* a * m / q rounded to nearest, computed without forming a * m (q > 0, m >= 0).
MulDiv(a, m, q) ==
    LET f == a \div q
        r == a - f * q
    IN  f * m + RoundDiv(r * m, q)

\* Sum of the elements of a sequence of integers.
SumSeq(s) ==
    LET P[k \in 0..Len(s)] == IF k = 0 THEN 0 ELSE P[k - 1] + s[k]
    IN  P[Len(s)]

MinSeq(s) == CHOOSE v \in {s[k] : k \in 1..Len(s)} : \A k \in 1..Len(s) : v <= s[k]

MaxSeq(s) == CHOOSE v \in {s[k] : k \in 1..Len(s)} : \A k \in 1..Len(s) : v >= s[k]

\* ------------------------------------------------ process.py: detrend_signal
\* Ordinary least squares line over the sample index, subtracted from every
\* value.  y holds raw integers; the result is in fixed point.  With
\* t(k) = 2k - (N+1) the fit at k is  Sy/N + Sxy * t(k) / Sxx.
detrend_signal(y) ==
    LET N   == Len(y)
        t(k) == 2 * k - (N + 1)
        Sy  == SumSeq(y)
        Sxx == SumSeq([k \in 1..N |-> t(k) * t(k)])
        Sxy == SumSeq([k \in 1..N |-> t(k) * y[k]])
        slope(k) == IF Sxx = 0 THEN 0 ELSE MulDiv(Sxy * t(k), Scale, Sxx)
    IN  [k \in 1..N |-> y[k] * Scale - (RoundDiv(Sy * Scale, N) + slope(k))]

\* ----------------------------------------------------- process.py: roll_mean
\* A window length below 1 is rejected (InvalidParameter).
roll_mean_fails(win_len) == win_len < 1

\* Mutant of roll_mean: every window sum is divided by win_len, a partial
\* window counting as padded with zeros.
roll_mean_zero_padded(y, win_len) ==
    LET N == Len(y)
        P[k \in 0..N] == IF k = 0 THEN 0 ELSE P[k - 1] + y[k]
    IN  [k \in 1..N |-> RoundDiv(P[k] - P[k - Min2(k, win_len)], win_len)]

\* Trailing moving average computed from running sums: output k is the mean of
\* the last Min(k, win_len) inputs up to k, so the first win_len - 1 outputs
\* come from the available partial window and the output has the input's length.
roll_mean(y, win_len) ==
    LET N == Len(y)
        P[k \in 0..N] == IF k = 0 THEN 0 ELSE P[k - 1] + y[k]
    IN  [k \in 1..N |-> RoundDiv(P[k] - P[k - Min2(k, win_len)], Min2(k, win_len))]

\* -------------------------------------------- setup.py: window_functions
\* The catalog of window functions, by name.
window_functions == <<"boxcar", "bartlett", "welch">>

\* Weight (fixed point) of window function func at index i (0 <= i < M) of a
\* support of length M >= 1; a support of one sample has weight 1.
window_weight(func, i, M) ==
    IF M = 1 \/ func = "boxcar" THEN Scale
    ELSE IF func = "bartlett"
         THEN Scale - RoundDiv(Abs(2 * i - (M - 1)) * Scale, M - 1)
    ELSE Scale - RoundDiv((2 * i - (M - 1)) * (2 * i - (M - 1)) * Scale,
                          (M - 1) * (M - 1))

\* -------------------------------------------------- process.py: taper_signal
\* The taper fraction is the rational perc.num / perc.den.
\* Number of tapered samples at each end: floor(p * N).
taper_len(N, perc) == (perc.num * N) \div perc.den

\* A fraction above 0.5 (the two edges would overlap) or below 0 is rejected
\* (InvalidParameter).
taper_signal_fails(perc) == 2 * perc.num > perc.den \/ perc.num < 0

\* Weight array: the first n and last n samples take the first and second half
\* of the window over a support of 2n, interior samples take 1.0.
taper_weights(N, perc, func) ==
    LET n == taper_len(N, perc)
    IN  [k \in 1..N |->
            IF k <= n THEN window_weight(func, k - 1, 2 * n)
            ELSE IF k > N - n THEN window_weight(func, n + (k - (N - n)) - 1, 2 * n)
            ELSE Scale]

\* Elementwise product of the values with the weight array.
taper_signal(y, perc, func) ==
    LET W == taper_weights(Len(y), perc, func)
    IN  [k \in 1..Len(y) |-> RoundDiv(y[k] * W[k], Scale)]

\* ------------------------------------------------- process.py: calc_spectrum
\* Timestamps are counted in ticks of half a second, so that the sampling
\* intervals of both devices (1 s and 0.5 s) are whole numbers.
TicksPerSecond == 2

\* Twice the cosine of the angle 2*pi*j/N, exact for the series lengths whose
\* cosines are rational (N in {1, 2, 3, 4, 6}).
Cos2(j, N) ==
    LET r == j % N
    IN  IF r = 0 THEN 2
        ELSE IF 2 * r = N THEN -2
        ELSE IF 4 * r = N \/ 4 * r = 3 * N THEN 0
        ELSE IF 6 * r = N \/ 6 * r = 5 * N THEN 1
        ELSE -1

\* Twice the squared magnitude of bin k of the discrete Fourier transform:
\* 2 * |sum_m y[m] * exp(-2*pi*i*k*m/N)|^2 = sum_m sum_n y[m]*y[n]*2cos(2*pi*k*(m-n)/N).
dft_power2(y, k) ==
    LET N == Len(y)
    IN  SumSeq([m \in 1..N |->
            SumSeq([n \in 1..N |-> y[m] * y[n] * Cos2(k * (m - n) + k * N, N)])])

\* Mutant of rfftfreq: the zero-frequency bin is kept.
rfftfreq_with_dc(N, dt) ==
    [k \in 1..(N \div 2 + 1) |-> [num |-> (k - 1) * TicksPerSecond, den |-> N * dt]]

\* The frequencies (Hz, as fractions) of the one-sided bins 1 .. N div 2 of a
\* series of N samples dt ticks apart; the zero-frequency bin is left out.
rfftfreq(N, dt) ==
    [k \in 1..(N \div 2) |-> [num |-> k * TicksPerSecond, den |-> N * dt]]

\* No nonzero frequency bin (InsufficientData), or a time array whose length
\* is not that of the value array (DimensionMismatch).
calc_spectrum_fails(x, y) ==
    IF Len(y) < 2 THEN "InsufficientData"
    ELSE IF Len(x) # Len(y) THEN "DimensionMismatch"
    ELSE "none"

\* The frequencies, and at each of them the power times the frequency; the
\* sampling interval is the step between the first two timestamps.
calc_spectrum(x, y) ==
    LET N  == Len(y)
        dt == x[2] - x[1]
        f  == rfftfreq(N, dt)
    IN  [freq |-> f,
         spec |-> [k \in 1..Len(f) |->
                      RoundDiv(dft_power2(y, k) * f[k].num, 2 * Scale * f[k].den)]]

\* ------------------------------------------------------------------- state
VARIABLES
    prog,                \* the function of the repository that was called
    pc,                  \* its position
    failure,             \* the exception it raised, "none" while there is none
    y,                   \* the input series
    device,              \* plot_avg: "EXPE" or "SONIC"
    SAMPLE_RATE,         \* setup.py: samples per second of each device
    WINDOWS_MIN,         \* setup.py: the Window Length Set, minutes
    MITTELUNGSINTERVALL, \* setup.py: the Reference Window, minutes
    y_det,               \* plot_avg: the detrended series
    win_lens,            \* plot_avg: the windows as sample counts
    ref,                 \* plot_avg: the reference smoothed series
    i,                   \* plot_avg, plot_win: loop index (from 1)
    diff_lists,          \* plot_avg: one deviation list per finished iteration
    error_metrics,       \* plot_avg: metric name -> list of per-window values
    ax1_labels,          \* plot_avg: label of each line drawn in panel B
    calls,               \* window lengths handed to roll_mean, in call order
    win_len,             \* roll_mean: the window length argument
    perc,                \* taper_signal: the taper fraction argument
    func,                \* taper_signal: the window function argument
    out,                 \* roll_mean, taper_signal: the returned array
    lines,               \* plot_win: the curves drawn, per window function
    x,                   \* plot_spectrum: the timestamps, in ticks
    KERNEL_SIZE,         \* setup.py: the configured smoothing window length
    y_tapered,           \* plot_spectrum: the detrended and tapered series
    freq,                \* plot_spectrum: the frequencies of the spectrum
    spec,                \* plot_spectrum: the scaled power at each frequency
    spec_label,          \* plot_spectrum: the width printed in the legend label
    all_puos,            \* setup.py: the names of the periods under observation
    panels,              \* plot_spectrum_comp_all: the curves drawn, per panel
    ln1,                 \* plot_spectrum_comp_all: line handle list ln1
    ln2,                 \* plot_spectrum_comp_all: line handle list ln2
    legend,              \* plot_spectrum_comp_all: the legend of panel [2, 3]
    jobs,                \* workers: the plotting invocation of each worker
    wpc,                 \* workers: the position of each worker
    files                \* workers: the files on disk, each with its last writer

vars == <<prog, pc, failure, y, device, SAMPLE_RATE, WINDOWS_MIN,
          MITTELUNGSINTERVALL, y_det, win_lens, ref, i, diff_lists,
          error_metrics, ax1_labels, calls, win_len, perc, func, out, lines,
          x, KERNEL_SIZE, y_tapered, freq, spec, spec_label,
          all_puos, panels, ln1, ln2, legend, jobs, wpc, files>>

avg_inputs == <<y, device, SAMPLE_RATE, WINDOWS_MIN, MITTELUNGSINTERVALL>>

avg_locals == <<y_det, win_lens, ref, i, diff_lists, error_metrics, ax1_labels>>

fn_args == <<win_len, perc, func>>

spectrum_vars == <<x, KERNEL_SIZE, y_tapered, freq, spec, spec_label>>

comp_vars == <<all_puos, panels, ln1, ln2, legend>>

worker_vars == <<jobs, wpc, files>>

other_plots == <<spectrum_vars, comp_vars, worker_vars>>

\* ------------------------------------------------------------------ inputs
Levels == {0, 1, MaxVal}

Lens == (0..ShortLen) \cup {MaxLen}

\* A series of N samples that holds a up to sample s and b after it.
StepSeries(N, s, a, b) == [k \in 1..N |-> IF k <= s THEN a ELSE b]

InputSeries ==
    {StepSeries(N, s, a, b) :
        N \in Lens, s \in {0, 1, MaxLen \div 2}, a \in Levels, b \in Levels}

Devices == {"EXPE", "SONIC"}

\* The configured rates (1 Hz and 2 Hz), and a configuration whose rate is too
\* low to give a window any sample.
SampleRateConfigs ==
    {[EXPE |-> 1, SONIC |-> 2], [EXPE |-> 0, SONIC |-> 2]}

WindowConfigs == {<<1, 5, 10, 30, 60>>, <<1, 10>>, <<1, 5, 10, 30, 60, 120>>}

ReferenceConfigs == {1, 10}

MetricNames == {"Mean", "Std", "Lower Range", "Upper Range"}

NoMetrics == [m \in MetricNames |-> <<>>]

\* The variables of plot_spectrum while another function runs.
SpectrumIdle ==
    /\ x = <<>>
    /\ KERNEL_SIZE = 10
    /\ y_tapered = <<>>
    /\ freq = <<>>
    /\ spec = <<>>
    /\ spec_label = 0

\* The variables of plot_spectrum_comp_all while another function runs.
CompIdle ==
    /\ all_puos = <<>>
    /\ panels = <<>>
    /\ ln1 = <<>>
    /\ ln2 = <<>>
    /\ legend = <<>>

\* The variables of the parallel workers while a single function runs.
WorkersIdle ==
    /\ jobs = <<>>
    /\ wpc = <<>>
    /\ files = {}

\* ---------------------------------------------------------- plot.py: plot_avg
\* Line colours of the rolling means and of the boxes.
colors == <<"b", "cyan", "gold", "orange", "r">>

\* Number of tick positions set on panel C: np.arange(5).
NumTicks == 5

\* A duration in minutes as a sample count at a sample rate.
window_samples(minutes, rate) == minutes * 60 * rate

\* A float64 result: a number of hundredths, or nan, or inf.
Num(h) == [is |-> "num", hundredths |-> h]

NaN == [is |-> "nan", hundredths |-> 0]

Inf == [is |-> "inf", hundredths |-> 0]

\* np.round(p / q, 2) of the real p / q; a zero divisor gives nan (0/0) or inf.
round2(p, q) ==
    IF q = 0 THEN (IF p = 0 THEN NaN ELSE Inf) ELSE Num(RoundDiv(100 * p, q))

\* Mutant of zip_diff: the last pair is dropped.
zip_diff_short(y_roll, r) ==
    LET full == [k \in 1..Min2(Len(y_roll), Len(r)) |-> y_roll[k] - r[k]]
    IN  SubSeq(full, 1, Len(full) - 1)

\* [i - j for i, j in zip(y_roll, ref)]: zip stops at the shorter list.
zip_diff(y_roll, r) ==
    [k \in 1..Min2(Len(y_roll), Len(r)) |-> y_roll[k] - r[k]]

\* Mutant of iter_ref: the reference is recomputed in the iteration, with the
\* iteration's window length.
iter_ref_recomputed == roll_mean(y_det, win_lens[i])

\* The reference series an iteration compares its rolling mean with.
iter_ref == ref

\* Mutant of std_metric: the deviations are centred on their mean first.
std_metric_centered(diff, r) ==
    LET mu == RoundDiv(SumSeq(diff), Len(diff))
    IN  round2(SumSeq([k \in 1..Len(diff) |-> (diff[k] - mu) * (diff[k] - mu)]),
               Scale * Scale * (Len(r) - 1))

\* np.round(np.sum([x**2 for x in diff]) / (len(ref) - 1), 2)
std_metric(diff, r) ==
    round2(SumSeq([k \in 1..Len(diff) |-> diff[k] * diff[k]]),
           Scale * Scale * (Len(r) - 1))

\* np.round(np.min(diff), 2)
lower_range_metric(diff) == round2(MinSeq(diff), Scale)

\* np.round(np.max(diff), 2)
upper_range_metric(diff) == round2(MaxSeq(diff), Scale)

\* np.round(np.mean(diff), 2)
mean_metric(diff) == round2(SumSeq(diff), Scale * Len(diff))

\* Mutant of append_metrics: each value is inserted at the front of its list.
append_metrics_front(em, diff, r) ==
    [em EXCEPT !["Std"] = <<std_metric(diff, r)>> \o @,
               !["Lower Range"] = <<lower_range_metric(diff)>> \o @,
               !["Upper Range"] = <<upper_range_metric(diff)>> \o @,
               !["Mean"] = <<mean_metric(diff)>> \o @]

\* The four appends of one iteration.
append_metrics(em, diff, r) ==
    [em EXCEPT !["Std"] = Append(@, std_metric(diff, r)),
               !["Lower Range"] = Append(@, lower_range_metric(diff)),
               !["Upper Range"] = Append(@, upper_range_metric(diff)),
               !["Mean"] = Append(@, mean_metric(diff))]

\* A call plot_avg(x, y, device, title, fn) under a configuration.
InitAvg ==
    /\ prog = "plot_avg"
    /\ pc = "detrend"
    /\ failure = "none"
    /\ y \in InputSeries
    /\ device \in Devices
    /\ SAMPLE_RATE \in SampleRateConfigs
    /\ WINDOWS_MIN \in WindowConfigs
    /\ MITTELUNGSINTERVALL \in ReferenceConfigs
    /\ y_det = <<>>
    /\ win_lens = <<>>
    /\ ref = <<>>
    /\ i = 0
    /\ diff_lists = <<>>
    /\ error_metrics = NoMetrics
    /\ ax1_labels = <<>>
    /\ calls = <<>>
    /\ win_len = 0
    /\ perc = [num |-> 0, den |-> 1]
    /\ func = "none"
    /\ out = <<>>
    /\ lines = <<>>
    /\ SpectrumIdle /\ CompIdle /\ WorkersIdle

\* y_det = detrend_signal(y)
AvgDetrend ==
    /\ prog = "plot_avg" /\ pc = "detrend"
    /\ y_det' = detrend_signal(y)
    /\ pc' = "convert"
    /\ UNCHANGED other_plots
    /\ UNCHANGED <<prog, failure, avg_inputs, win_lens, ref, i, diff_lists,
                   error_metrics, ax1_labels, calls, fn_args, out, lines>>

\* win_lens = [i*60*SAMPLE_RATE[device] for i in WINDOWS_MIN]
AvgConvert ==
    /\ prog = "plot_avg" /\ pc = "convert"
    /\ win_lens' = [k \in 1..Len(WINDOWS_MIN) |->
                        window_samples(WINDOWS_MIN[k], SAMPLE_RATE[device])]
    /\ pc' = "ref"
    /\ UNCHANGED other_plots
    /\ UNCHANGED <<prog, failure, avg_inputs, y_det, ref, i, diff_lists,
                   error_metrics, ax1_labels, calls, fn_args, out, lines>>

\* ref = roll_mean(y_det, win_len=MITTELUNGSINTERVALL*60*SAMPLE_RATE[device])
AvgRef ==
    /\ prog = "plot_avg" /\ pc = "ref"
    /\ LET L == window_samples(MITTELUNGSINTERVALL, SAMPLE_RATE[device])
       IN  /\ calls' = Append(calls, [of |-> "ref", win_len |-> L])
           /\ IF roll_mean_fails(L)
              THEN /\ failure' = "InvalidParameter"
                   /\ pc' = "failed"
                   /\ UNCHANGED <<ref, i>>
              ELSE /\ ref' = roll_mean(y_det, L)
                   /\ i' = 1
                   /\ pc' = "loop"
                   /\ UNCHANGED failure
    /\ UNCHANGED other_plots
    /\ UNCHANGED <<prog, avg_inputs, y_det, win_lens, diff_lists,
                   error_metrics, ax1_labels, fn_args, out, lines>>

\* One iteration of  for i, win_len in enumerate(win_lens)  that completes.
AvgIter ==
    /\ prog = "plot_avg" /\ pc = "loop" /\ i <= Len(win_lens)
    /\ ~roll_mean_fails(win_lens[i])
    /\ i <= Len(colors)
    /\ Len(zip_diff(roll_mean(y_det, win_lens[i]), iter_ref)) > 0
    /\ LET y_roll == roll_mean(y_det, win_lens[i])
           diff   == zip_diff(y_roll, iter_ref)
       IN  /\ calls' = Append(calls, [of |-> "window", win_len |-> win_lens[i]])
           /\ ax1_labels' = Append(ax1_labels, WINDOWS_MIN[i])
           /\ diff_lists' = Append(diff_lists, diff)
           /\ error_metrics' = append_metrics(error_metrics, diff, iter_ref)
    /\ i' = i + 1
    /\ UNCHANGED other_plots
    /\ UNCHANGED <<prog, pc, failure, avg_inputs, y_det, win_lens, ref,
                   fn_args, out, lines>>

\* An iteration that raises before anything is appended: roll_mean rejects the
\* window length (InvalidParameter), or, past the last colour, colors[i]
\* raises IndexError after the rolling mean was computed.
AvgIterRaise ==
    /\ prog = "plot_avg" /\ pc = "loop" /\ i <= Len(win_lens)
    /\ roll_mean_fails(win_lens[i]) \/ i > Len(colors)
    /\ calls' = Append(calls, [of |-> "window", win_len |-> win_lens[i]])
    /\ failure' = IF roll_mean_fails(win_lens[i]) THEN "InvalidParameter"
                  ELSE "IndexError"
    /\ pc' = "failed"
    /\ UNCHANGED other_plots
    /\ UNCHANGED <<prog, avg_inputs, avg_locals, fn_args, out, lines>>

\* An iteration whose deviation list is empty (an empty series): "Std" is
\* appended (0.0 / -1), then np.min of the empty list raises ValueError.
AvgIterEmpty ==
    /\ prog = "plot_avg" /\ pc = "loop" /\ i <= Len(win_lens)
    /\ ~roll_mean_fails(win_lens[i])
    /\ i <= Len(colors)
    /\ Len(zip_diff(roll_mean(y_det, win_lens[i]), iter_ref)) = 0
    /\ LET diff == zip_diff(roll_mean(y_det, win_lens[i]), iter_ref)
       IN  /\ calls' = Append(calls, [of |-> "window", win_len |-> win_lens[i]])
           /\ ax1_labels' = Append(ax1_labels, WINDOWS_MIN[i])
           /\ diff_lists' = Append(diff_lists, diff)
           /\ error_metrics' =
                [error_metrics EXCEPT !["Std"] = Append(@, std_metric(diff, iter_ref))]
    /\ failure' = "ValueError"
    /\ pc' = "failed"
    /\ UNCHANGED other_plots
    /\ UNCHANGED <<prog, avg_inputs, y_det, win_lens, ref, i, fn_args, out, lines>>

\* After the loop: the boxes, then the ticks of panel C.  set_xticks fixes
\* NumTicks positions and set_xticklabels raises ValueError for any other
\* number of labels; otherwise the figure is saved and error_metrics returned.
AvgFinish ==
    /\ prog = "plot_avg" /\ pc = "loop" /\ i > Len(win_lens)
    /\ IF Len(WINDOWS_MIN) # NumTicks
       THEN failure' = "ValueError" /\ pc' = "failed"
       ELSE failure' = failure /\ pc' = "returned"
    /\ UNCHANGED other_plots
    /\ UNCHANGED <<prog, avg_inputs, avg_locals, calls, fn_args, out, lines>>

\* --------------------------------------------- calls of roll_mean, taper_signal
\* Largest length and largest raw value of the arrays handed to one call.
MaxArrLen == 4

MaxArrVal == 2

\* Every array of up to MaxArrLen values, in fixed point.
RECURSIVE ArraysOfLen(_)
ArraysOfLen(n) ==
    IF n = 0 THEN {<<>>}
    ELSE {Append(a, v * Scale) : a \in ArraysOfLen(n - 1), v \in 0..MaxArrVal}

Arrays == UNION {ArraysOfLen(n) : n \in 0..MaxArrLen}

\* Taper fractions 0, 0.1, ..., 0.6 and 1/3.
Fractions == {[num |-> k, den |-> 10] : k \in 0..6} \cup {[num |-> 1, den |-> 3]}

Idle ==
    /\ failure = "none"
    /\ device = "EXPE"
    /\ SAMPLE_RATE = [EXPE |-> 1, SONIC |-> 2]
    /\ WINDOWS_MIN = <<1, 5, 10, 30, 60>>
    /\ MITTELUNGSINTERVALL = 10
    /\ y_det = <<>>
    /\ win_lens = <<>>
    /\ ref = <<>>
    /\ i = 0
    /\ diff_lists = <<>>
    /\ error_metrics = NoMetrics
    /\ ax1_labels = <<>>
    /\ calls = <<>>
    /\ out = <<>>
    /\ lines = <<>>

\* A call roll_mean(y, win_len).
InitRoll ==
    /\ prog = "roll_mean"
    /\ pc = "call"
    /\ y \in Arrays
    /\ win_len \in 0..(MaxArrLen + 1)
    /\ perc = [num |-> 0, den |-> 1]
    /\ func = "none"
    /\ Idle
    /\ SpectrumIdle /\ CompIdle /\ WorkersIdle

RollMeanCall ==
    /\ prog = "roll_mean" /\ pc = "call"
    /\ IF roll_mean_fails(win_len)
       THEN failure' = "InvalidParameter" /\ pc' = "failed" /\ out' = out
       ELSE failure' = failure /\ pc' = "done" /\ out' = roll_mean(y, win_len)
    /\ UNCHANGED other_plots
    /\ UNCHANGED <<prog, avg_inputs, avg_locals, calls, fn_args, lines>>

\* A call taper_signal(y, perc, func).
InitTaper ==
    /\ prog = "taper_signal"
    /\ pc = "call"
    /\ y \in Arrays
    /\ win_len = 0
    /\ perc \in Fractions
    /\ func \in {window_functions[k] : k \in 1..Len(window_functions)}
    /\ Idle
    /\ SpectrumIdle /\ CompIdle /\ WorkersIdle

TaperCall ==
    /\ prog = "taper_signal" /\ pc = "call"
    /\ IF taper_signal_fails(perc)
       THEN failure' = "InvalidParameter" /\ pc' = "failed" /\ out' = out
       ELSE failure' = failure /\ pc' = "done" /\ out' = taper_signal(y, perc, func)
    /\ UNCHANGED other_plots
    /\ UNCHANGED <<prog, avg_inputs, avg_locals, calls, fn_args, lines>>

\* ---------------------------------------------------------- plot.py: plot_win
\* np.ones(100)
plot_win_y == [k \in 1..100 |-> Scale]

\* Mutant of plot_win_full_perc: a fraction above one half.
plot_win_full_perc_over == [num |-> 6, den |-> 10]

\* perc=0.5: the full range
plot_win_full_perc == [num |-> 5, den |-> 10]

\* Mutant of plot_win_edge_perc: 20 % of each end.
plot_win_edge_perc_wide == [num |-> 2, den |-> 10]

\* perc=0.1: the first and last 10 %
plot_win_edge_perc == [num |-> 1, den |-> 10]

InitWin ==
    /\ prog = "plot_win"
    /\ pc = "loop"
    /\ y = plot_win_y
    /\ win_len = 0
    /\ perc = [num |-> 0, den |-> 1]
    /\ func = "none"
    /\ failure = "none"
    /\ device = "EXPE"
    /\ SAMPLE_RATE = [EXPE |-> 1, SONIC |-> 2]
    /\ WINDOWS_MIN = <<1, 5, 10, 30, 60>>
    /\ MITTELUNGSINTERVALL = 10
    /\ y_det = <<>>
    /\ win_lens = <<>>
    /\ ref = <<>>
    /\ i = 1
    /\ diff_lists = <<>>
    /\ error_metrics = NoMetrics
    /\ ax1_labels = <<>>
    /\ calls = <<>>
    /\ out = <<>>
    /\ lines = <<>>
    /\ SpectrumIdle /\ CompIdle /\ WorkersIdle

\* One iteration of  for i, wf in enumerate(window_functions): both curves.
PlotWinIter ==
    /\ prog = "plot_win" /\ pc = "loop" /\ i <= Len(window_functions)
    /\ IF taper_signal_fails(plot_win_full_perc) \/ taper_signal_fails(plot_win_edge_perc)
       THEN /\ failure' = "InvalidParameter"
            /\ pc' = "failed"
            /\ UNCHANGED <<i, lines>>
       ELSE /\ lines' = Append(lines,
                  [wf   |-> window_functions[i],
                   full |-> taper_signal(y, plot_win_full_perc, window_functions[i]),
                   edge |-> taper_signal(y, plot_win_edge_perc, window_functions[i])])
            /\ i' = i + 1
            /\ UNCHANGED <<failure, pc>>
    /\ UNCHANGED other_plots
    /\ UNCHANGED <<prog, avg_inputs, y_det, win_lens, ref, diff_lists,
                   error_metrics, ax1_labels, calls, fn_args, out>>

\* plt.savefig("plots/sensitivity_wf/window_functions.png")
PlotWinSave ==
    /\ prog = "plot_win" /\ pc = "loop" /\ i > Len(window_functions)
    /\ pc' = "saved"
    /\ UNCHANGED other_plots
    /\ UNCHANGED <<prog, failure, avg_inputs, avg_locals, calls, fn_args, out, lines>>

\* ----------------------------------------------------- plot.py: plot_spectrum
\* Series lengths whose transform is exact in whole numbers (see Cos2).
SpecLens == {0, 1, 2, 3, 4, 6}

\* The raw series handed to plot_spectrum.
SpectrumSeries ==
    {[k \in 1..Len(a) |-> a[k] \div Scale] :
        a \in UNION {ArraysOfLen(n) : n \in SpecLens}}

\* Sampling intervals in ticks: 0.5 s (2 Hz) and 1 s (1 Hz).
SamplingIntervals == {1, 2}

\* n uniformly spaced timestamps, dt ticks apart.
Timestamps(n, dt) == [k \in 1..n |-> (k - 1) * dt]

\* Configured smoothing window lengths.
KernelConfigs == {5, 10}

\* taper_signal(..., 0.1): the fraction, and the window function taken when
\* none is named.
plot_spectrum_perc == [num |-> 1, den |-> 10]

default_func == window_functions[1]

\* roll_mean(spec, win_len=10)
plot_spectrum_win_len == 10

\* A call plot_spectrum(x, y, fn, ylabel, title) under a configuration; the
\* time array has the length of the value array, or one more.
InitSpectrum ==
    /\ prog = "plot_spectrum"
    /\ pc = "condition"
    /\ y \in SpectrumSeries
    /\ \E dt \in SamplingIntervals, extra \in {0, 1} :
            x = Timestamps(Len(y) + extra, dt)
    /\ KERNEL_SIZE \in KernelConfigs
    /\ y_tapered = <<>>
    /\ freq = <<>>
    /\ spec = <<>>
    /\ spec_label = 0
    /\ win_len = 0
    /\ perc = [num |-> 0, den |-> 1]
    /\ func = "none"
    /\ Idle
    /\ CompIdle /\ WorkersIdle

\* y_tapered = taper_signal(detrend_signal(y), 0.1)
SpectrumCondition ==
    /\ prog = "plot_spectrum" /\ pc = "condition"
    /\ y_tapered' = taper_signal(detrend_signal(y), plot_spectrum_perc, default_func)
    /\ pc' = "spectrum"
    /\ UNCHANGED <<prog, failure, avg_inputs, avg_locals, calls, fn_args, out, lines>>
    /\ UNCHANGED <<x, KERNEL_SIZE, freq, spec, spec_label, comp_vars, worker_vars>>

\* freq, spec = calc_spectrum(x, y_tapered)
SpectrumCalc ==
    /\ prog = "plot_spectrum" /\ pc = "spectrum"
    /\ IF calc_spectrum_fails(x, y_tapered) # "none"
       THEN /\ failure' = calc_spectrum_fails(x, y_tapered)
            /\ pc' = "failed"
            /\ UNCHANGED <<freq, spec>>
       ELSE /\ freq' = calc_spectrum(x, y_tapered).freq
            /\ spec' = calc_spectrum(x, y_tapered).spec
            /\ pc' = "smooth"
            /\ UNCHANGED failure
    /\ UNCHANGED <<prog, avg_inputs, avg_locals, calls, fn_args, out, lines>>
    /\ UNCHANGED <<x, KERNEL_SIZE, y_tapered, spec_label, comp_vars, worker_vars>>

\* The panels: the scatter of the spectrum, its rolling mean under the label
\* "Gleitendes Mittel (Fensterbreite={KERNEL_SIZE})", and the figure saved.
SpectrumSmooth ==
    /\ prog = "plot_spectrum" /\ pc = "smooth"
    /\ calls' = Append(calls, [of |-> "spectrum", win_len |-> plot_spectrum_win_len])
    /\ out' = roll_mean(spec, plot_spectrum_win_len)
    /\ spec_label' = KERNEL_SIZE
    /\ pc' = "saved"
    /\ UNCHANGED <<prog, failure, avg_inputs, avg_locals, fn_args, lines>>
    /\ UNCHANGED <<x, KERNEL_SIZE, y_tapered, freq, spec, comp_vars, worker_vars>>

\* -------------------------------------------- plot.py: plot_spectrum_comp_all
\* Largest number of periods under observation in a configuration.
MaxPuos == 13

\* plt.subplots(3, 4, ...)
GridRows == 3

GridCols == 4

\* The panel that carries the legend: ax[2, 3].
LegendPanel == <<2, 3>>

\* The labels of the four curves drawn per panel, in drawing order.
SeriesLabels ==
    <<"Temperatur (EXPE, 1 Hz)", "Temperatur (SONIC, 2 Hz)",
      "Horizontalwind (2 Hz)", "Vertikalwind (2 Hz)">>

\* The configured periods, numbered.
PuoConfigs == {[k \in 1..n |-> k] : n \in 0..MaxPuos}

\* A call plot_spectrum_comp_all() under a configuration.  A handle list
\* that is not bound yet is the empty list (plot never returns one).
InitCompAll ==
    /\ prog = "plot_spectrum_comp_all"
    /\ pc = "loop"
    /\ all_puos \in PuoConfigs
    /\ panels = <<>>
    /\ ln1 = <<>>
    /\ ln2 = <<>>
    /\ legend = <<>>
    /\ y = <<>>
    /\ win_len = 0
    /\ perc = [num |-> 0, den |-> 1]
    /\ func = "none"
    /\ failure = "none"
    /\ device = "EXPE"
    /\ SAMPLE_RATE = [EXPE |-> 1, SONIC |-> 2]
    /\ WINDOWS_MIN = <<1, 5, 10, 30, 60>>
    /\ MITTELUNGSINTERVALL = 10
    /\ y_det = <<>>
    /\ win_lens = <<>>
    /\ ref = <<>>
    /\ i = 1
    /\ diff_lists = <<>>
    /\ error_metrics = NoMetrics
    /\ ax1_labels = <<>>
    /\ calls = <<>>
    /\ out = <<>>
    /\ lines = <<>>
    /\ SpectrumIdle /\ WorkersIdle

\* One iteration of  for i, puo in enumerate(all_puos): the four curves are
\* drawn in panel ax[i // 4, i % 4] (i counted from 0 there, from 1 here), and
\* the handle lists are assigned in the order ln1, ln2, ln1, ln2.  Past the
\* last row of the grid the first ax[...] raises IndexError.
CompAllIter ==
    /\ prog = "plot_spectrum_comp_all" /\ pc = "loop" /\ i <= Len(all_puos)
    /\ LET row == (i - 1) \div GridCols
           col == (i - 1) % GridCols
           ln1_expe   == <<SeriesLabels[1]>>
           ln2_sonic  == <<SeriesLabels[2]>>
           ln1_wind_h == <<SeriesLabels[3]>>
           ln2_wind_z == <<SeriesLabels[4]>>
       IN  IF row >= GridRows
           THEN /\ failure' = "IndexError"
                /\ pc' = "failed"
                /\ UNCHANGED <<panels, ln1, ln2, i>>
           ELSE /\ panels' = Append(panels,
                      [at     |-> <<row, col>>,
                       puo    |-> all_puos[i],
                       curves |-> ln1_expe \o ln2_sonic \o ln1_wind_h \o ln2_wind_z])
                /\ ln1' = ln1_wind_h
                /\ ln2' = ln2_wind_z
                /\ i' = i + 1
                /\ UNCHANGED <<failure, pc>>
    /\ UNCHANGED <<prog, avg_inputs, y_det, win_lens, ref, diff_lists,
                   error_metrics, ax1_labels, calls, fn_args, out, lines>>
    /\ UNCHANGED <<all_puos, legend, spectrum_vars, worker_vars>>

\* After the loop: lns = ln1+ln2, the legend of panel [2, 3] built from it,
\* and the figure saved; without any period ln1 is unbound.
CompAllLegend ==
    /\ prog = "plot_spectrum_comp_all" /\ pc = "loop" /\ i > Len(all_puos)
    /\ IF ln1 = <<>>
       THEN /\ failure' = "UnboundLocalError"
            /\ pc' = "failed"
            /\ UNCHANGED legend
       ELSE /\ legend' = [at |-> LegendPanel, labs |-> ln1 \o ln2]
            /\ pc' = "saved"
            /\ UNCHANGED failure
    /\ UNCHANGED <<prog, avg_inputs, avg_locals, calls, fn_args, out, lines>>
    /\ UNCHANGED <<all_puos, panels, ln1, ln2, spectrum_vars, worker_vars>>

\* ------------------------------------------------ plot.py: the saved figures
\* A path is the sequence of the fragments its f-string joins.
DigitChar == <<"0", "1", "2", "3", "4", "5", "6", "7", "8", "9">>

\* str(n) of a natural number, digit by digit.
RECURSIVE Str(_)
Str(n) == IF n < 10 THEN <<DigitChar[n + 1]>>
          ELSE Str(n \div 10) \o <<DigitChar[(n % 10) + 1]>>

\* The variables measured by each device.
variables == [EXPE |-> {"t"}, SONIC |-> {"t", "wind_h", "wind_z"}]

\* f"plots/preprocessing/preprocess_{fn}.png"
plot_ts_path(fn) == <<"plots/preprocessing/", "preprocess_", fn, ".png">>

\* f"plots/spectra/spec_{fn}.png"
plot_spectrum_path(fn) == <<"plots/spectra/", "spec_", fn, ".png">>

\* f"plots/spectra_comparison/spectra_temporal_comparison_{device}_{var}.png"
plot_spectrum_comp_path(dev, var) ==
    <<"plots/spectra_comparison/", "spectra_temporal_comparison", "_", dev,
      "_", var, "_spec", ".png">>

\* Mutant of plot_avg_path: the file name argument is left out of the path.
plot_avg_path_without_fn(fn, mitt) ==
    <<"plots/averaging/", "_">> \o Str(mitt) \o <<"min.png">>

\* f"plots/averaging/{fn}_{MITTELUNGSINTERVALL}min.png"
plot_avg_path(fn, mitt) ==
    <<"plots/averaging/", fn, "_">> \o Str(mitt) \o <<"min.png">>

\* f"plots/sensitivity_wf/{fn}.png"
plot_win_influence_path(fn) == <<"plots/sensitivity_wf/", fn, ".png">>

\* f"plots/turbulent_intensity/turbulent_intensity_{which}_without_PUO05.png"
plot_turb_intensity_path(which) ==
    <<"plots/turbulent_intensity/", "turbulent_intensity_", which,
      "_without_PUO05", ".png">>

\* f"plots/other/error_metrics_{MITTELUNGSINTERVALL}min.png"
plot_error_metrics_path(mitt) ==
    <<"plots/other/", "error_metrics_">> \o Str(mitt) \o <<"min.png">>

\* The paths one invocation c hands to plt.savefig.
savefig_paths(c, mitt) ==
    CASE c.f = "plot_ts" -> {plot_ts_path(c.fn)}
      [] c.f = "plot_spectrum" -> {plot_spectrum_path(c.fn)}
      [] c.f = "plot_spectrum_comp" ->
            {plot_spectrum_comp_path(c.device, var) : var \in variables[c.device]}
      [] c.f = "plot_spectrum_comp_all" ->
            {<<"plots/spectra_comparison/", "spectra_temporal_comparison", ".png">>}
      [] c.f = "plot_wind_spectrum_comp" ->
            {<<"plots/spectra_comparison/", "spectra_temporal_comparison", "_",
               "SONIC", "_", "wind", ".png">>}
      [] c.f = "plot_avg" -> {plot_avg_path(c.fn, mitt)}
      [] c.f = "plot_win" -> {<<"plots/sensitivity_wf/", "window_functions", ".png">>}
      [] c.f = "plot_win_influence" -> {plot_win_influence_path(c.fn)}
      [] c.f = "plot_temporal_coverage" ->
            {<<"plots/temporal_coverage/", "temporal_coverage", ".png">>}
      [] c.f = "plot_patterns" ->
            {<<"plots/spectra_comparison/", "spectra_variable_comparison_",
               c.period, ".png">>,
             <<"plots/spectra_comparison/", "spectra_variable_comparison_corr_",
               c.period, ".png">>}
      [] c.f = "plot_mean_corr" -> {<<"plots/other/", "correlation_mean", ".png">>}
      [] c.f = "plot_turb_intensity" -> {plot_turb_intensity_path(c.which)}
      [] c.f = "plot_error_metrics" -> {plot_error_metrics_path(mitt)}

\* Names of periods, of figure files, of metric tables, of turbulence plots.
Periods == {"PUO_01", "PUO_02"}

FileNames == {"PUO_01_EXPE_t", "PUO_01_SONIC_t"}

CsvNames == {"data/avg_error_metrics.csv", "data/avg_error_metrics_2.csv"}

Whichs == {"t", "wind"}

\* The plot functions that are handed the series (x, y) of one period and one
\* device, and those without arguments.
SeriesPlots == {"plot_ts", "plot_spectrum", "plot_avg", "plot_win_influence"}

ConstantPlots ==
    {"plot_spectrum_comp_all", "plot_wind_spectrum_comp", "plot_win",
     "plot_temporal_coverage", "plot_mean_corr"}

PlotCall(f, period, dev, fn, which) ==
    [f |-> f, period |-> period, device |-> dev, fn |-> fn, which |-> which]

\* Every invocation of a plot function of plot.py; "" is an argument the
\* function does not have.
PlotCalls ==
    {PlotCall(f, p, d, n, "") :
        f \in SeriesPlots, p \in Periods, d \in Devices, n \in FileNames}
    \cup {PlotCall("plot_spectrum_comp", "", d, "", "") : d \in Devices}
    \cup {PlotCall("plot_patterns", p, "", "", "") : p \in Periods}
    \cup {PlotCall("plot_turb_intensity", "", "", "", w) : w \in Whichs}
    \cup {PlotCall("plot_error_metrics", "", "", n, "") : n \in CsvNames}
    \cup {PlotCall(f, "", "", "", "") : f \in ConstantPlots}

Workers == {1, 2}

\* Two workers, each running one invocation, under one configuration.
InitWorkers ==
    /\ prog = "workers"
    /\ pc = "run"
    /\ jobs \in [Workers -> PlotCalls]
    /\ wpc = [w \in Workers |-> "start"]
    /\ files = {}
    /\ MITTELUNGSINTERVALL \in ReferenceConfigs
    /\ y = <<>>
    /\ win_len = 0
    /\ perc = [num |-> 0, den |-> 1]
    /\ func = "none"
    /\ failure = "none"
    /\ device = "EXPE"
    /\ SAMPLE_RATE = [EXPE |-> 1, SONIC |-> 2]
    /\ WINDOWS_MIN = <<1, 5, 10, 30, 60>>
    /\ y_det = <<>>
    /\ win_lens = <<>>
    /\ ref = <<>>
    /\ i = 0
    /\ diff_lists = <<>>
    /\ error_metrics = NoMetrics
    /\ ax1_labels = <<>>
    /\ calls = <<>>
    /\ out = <<>>
    /\ lines = <<>>
    /\ SpectrumIdle /\ CompIdle

\* Worker w builds its figure, in its own memory.
WorkerDraw(w) ==
    /\ prog = "workers" /\ wpc[w] = "start"
    /\ wpc' = [wpc EXCEPT ![w] = "drawn"]
    /\ UNCHANGED <<prog, pc, failure, avg_inputs, avg_locals, calls, fn_args,
                   out, lines>>
    /\ UNCHANGED <<spectrum_vars, comp_vars, jobs, files>>

\* Worker w saves: plt.savefig creates each of its paths, or replaces the
\* file that is there.
WorkerSave(w) ==
    /\ prog = "workers" /\ wpc[w] = "drawn"
    /\ LET paths == savefig_paths(jobs[w], MITTELUNGSINTERVALL)
       IN  files' = {r \in files : r.path \notin paths}
                        \cup {[path |-> q, by |-> w] : q \in paths}
    /\ wpc' = [wpc EXCEPT ![w] = "saved"]
    /\ UNCHANGED <<prog, pc, failure, avg_inputs, avg_locals, calls, fn_args,
                   out, lines>>
    /\ UNCHANGED <<spectrum_vars, comp_vars, jobs>>

\* ------------------------------------------------------------ specification
Init == InitAvg \/ InitRoll \/ InitTaper \/ InitWin \/ InitSpectrum
            \/ InitCompAll \/ InitWorkers

Next ==
    \/ AvgDetrend
    \/ AvgConvert
    \/ AvgRef
    \/ AvgIter
    \/ AvgIterRaise
    \/ AvgIterEmpty
    \/ AvgFinish
    \/ RollMeanCall
    \/ TaperCall
    \/ PlotWinIter
    \/ PlotWinSave
    \/ SpectrumCondition
    \/ SpectrumCalc
    \/ SpectrumSmooth
    \/ CompAllIter
    \/ CompAllLegend
    \/ \E w \in Workers : WorkerDraw(w)
    \/ \E w \in Workers : WorkerSave(w)

Spec == Init /\ [][Next]_vars

\* ------------------------------------------------------------------ claims
InAvg == prog = "plot_avg"

\* Number of iterations of plot_avg's loop that ran to their end.
Finished == Len(error_metrics["Mean"])

\* The value h (a float64 result) is the real p / q (q > 0) rounded to two
\* decimals: a number within half a hundredth of it.
IsRounded2(h, p, q) ==
    h.is = "num" /\ 2 * Abs(h.hundredths * q - 100 * p) <= q

\* C1: in plot_avg, a window length equal to the Reference Window has the
\* entry 0 in each of the four metric lists, for any input series.
C1_ReferenceWindowAllZero ==
    InAvg =>
        \A m \in MetricNames : \A k \in 1..Len(error_metrics[m]) :
            WINDOWS_MIN[k] = MITTELUNGSINTERVALL => error_metrics[m][k] = Num(0)

\* C2: for every window w of a finished iteration, with d the elementwise
\* difference of the rolling mean at w and the rolling mean at the Reference
\* Window and N the series length: Mean is mean(d), Std is sum(d^2)/(N-1)
\* (not mean-centred, no square root; 0/0 = nan when N = 1), Lower Range is
\* min(d), Upper Range is max(d), each rounded to two decimals.
C2_MetricsFormula ==
    InAvg =>
        \A k \in 1..Finished :
            LET d == diff_lists[k]
                N == Len(y)
                a == roll_mean(y_det, WINDOWS_MIN[k] * 60 * SAMPLE_RATE[device])
                b == roll_mean(y_det, MITTELUNGSINTERVALL * 60 * SAMPLE_RATE[device])
            IN  /\ Len(d) = N
                /\ \A j \in 1..N : d[j] = a[j] - b[j]
                /\ IsRounded2(error_metrics["Mean"][k], SumSeq(d), Scale * N)
                /\ IF N = 1
                   THEN error_metrics["Std"][k] = NaN
                   ELSE IsRounded2(error_metrics["Std"][k],
                                   SumSeq([j \in 1..N |-> d[j] * d[j]]),
                                   Scale * Scale * (N - 1))
                /\ \E j \in 1..N :
                        /\ \A l \in 1..N : d[j] <= d[l]
                        /\ IsRounded2(error_metrics["Lower Range"][k], d[j], Scale)
                /\ \E j \in 1..N :
                        /\ \A l \in 1..N : d[j] >= d[l]
                        /\ IsRounded2(error_metrics["Upper Range"][k], d[j], Scale)

\* Witness of C2: plot_avg returned a record with a nonzero Std, a negative
\* Lower Range and a nonzero Mean for some window.
C2_Witness ==
    /\ InAvg /\ pc = "returned"
    /\ \E k \in 1..Finished :
            /\ error_metrics["Std"][k].is = "num"
            /\ error_metrics["Std"][k].hundredths > 0
            /\ error_metrics["Lower Range"][k].hundredths < 0
            /\ error_metrics["Mean"][k].hundredths # 0

\* The metric named m of a deviation list d against the reference r.
MetricOf(m, d, r) ==
    IF m = "Std" THEN std_metric(d, r)
    ELSE IF m = "Lower Range" THEN lower_range_metric(d)
    ELSE IF m = "Upper Range" THEN upper_range_metric(d)
    ELSE mean_metric(d)

\* C3: when plot_avg returns, each of the four metric lists has one entry per
\* member of WINDOWS_MIN and entry k is that of the k-th window; after each
\* iteration of the loop the four lists have the same length.
C3_OneEntryPerWindow ==
    InAvg =>
        /\ pc = "returned" =>
              \A m \in MetricNames :
                  /\ Len(error_metrics[m]) = Len(WINDOWS_MIN)
                  /\ \A k \in 1..Len(WINDOWS_MIN) :
                        /\ ax1_labels[k] = WINDOWS_MIN[k]
                        /\ error_metrics[m][k] =
                              MetricOf(m,
                                  [j \in 1..Len(y) |->
                                      roll_mean(y_det,
                                          WINDOWS_MIN[k] * 60 * SAMPLE_RATE[device])[j]
                                      - ref[j]],
                                  ref)
        /\ pc = "loop" =>
              \A m \in MetricNames : Len(error_metrics[m]) = i - 1

\* Witness of C3: plot_avg returned lists whose entries differ between windows.
C3_Witness ==
    /\ InAvg /\ pc = "returned"
    /\ error_metrics["Lower Range"][1] # error_metrics["Lower Range"][2]
    /\ error_metrics["Std"][1] # error_metrics["Std"][Len(WINDOWS_MIN)]

\* C4: within one call of plot_avg the reference series is computed exactly
\* once, before the first window comparison, and that same unmodified value
\* is the one every window comparison used.
C4_ReferenceComputedOnce ==
    InAvg =>
        LET refcalls == {k \in 1..Len(calls) : calls[k].of = "ref"}
        IN  /\ Cardinality(refcalls) <= 1
            /\ (pc \in {"loop", "returned"} \/ Len(diff_lists) > 0) =>
                  /\ refcalls = {1}
                  /\ ref = roll_mean(y_det,
                               MITTELUNGSINTERVALL * 60 * SAMPLE_RATE[device])
            /\ \A k \in 1..Len(diff_lists) :
                  /\ Len(diff_lists[k]) = Len(ref)
                  /\ \A j \in 1..Len(ref) :
                        diff_lists[k][j] = roll_mean(y_det, win_lens[k])[j] - ref[j]

\* Witness of C4: plot_avg returned after five comparisons with one
\* reference, two of which gave different deviations.
C4_Witness ==
    /\ InAvg /\ pc = "returned"
    /\ Len(diff_lists) = Len(WINDOWS_MIN)
    /\ \E k \in 1..Len(diff_lists) : diff_lists[k] # diff_lists[1]

\* C5: with fewer than two samples plot_avg fails with InsufficientData and
\* returns no record (none computed with the zero divisor N - 1).
C5_InsufficientData ==
    (InAvg /\ Len(y) < 2) =>
        /\ pc # "returned"
        /\ pc = "failed" => failure = "InsufficientData"
        /\ \A m \in MetricNames : error_metrics[m] = <<>>

\* C6: when a nonzero-minute window or the reference converts to a sample
\* count of zero, plot_avg fails with DimensionMismatch before any rolling
\* mean is computed; a zero count is never handed to roll_mean.
C6_ZeroCountSurfaced ==
    InAvg =>
        LET minutes == {WINDOWS_MIN[k] : k \in 1..Len(WINDOWS_MIN)}
                           \cup {MITTELUNGSINTERVALL}
            zero    == \E m \in minutes :
                           m # 0 /\ m * 60 * SAMPLE_RATE[device] = 0
        IN  /\ \A k \in 1..Len(calls) : calls[k].win_len # 0
            /\ zero => calls = <<>>
            /\ (zero /\ pc = "failed") => failure = "DimensionMismatch"

\* C7: roll_mean returns as many elements as it is given for every window
\* length 1 <= L <= N, so every deviation list of plot_avg has the N elements
\* that the divisor len(ref) - 1 = N - 1 counts.
C7_RollMeanLength ==
    /\ (prog = "roll_mean" /\ pc = "done" /\ 1 <= win_len /\ win_len <= Len(y)) =>
          Len(out) = Len(y)
    /\ InAvg =>
          /\ pc \in {"loop", "returned"} => Len(ref) = Len(y)
          /\ \A k \in 1..Len(diff_lists) : Len(diff_lists[k]) = Len(y)

\* Witness of C7: plot_avg returned for a series longer than its shortest
\* window (1 <= L <= N), with a nonzero deviation.
C7_Witness ==
    /\ InAvg /\ pc = "returned"
    /\ \E k \in 1..Len(win_lens) :
          /\ 1 <= win_lens[k] /\ win_lens[k] <= Len(y)
          /\ \E j \in 1..Len(diff_lists[k]) : diff_lists[k][j] # 0

\* The mean of the first k elements of y.
PrefixMean(k) == RoundDiv(SumSeq(SubSeq(y, 1, k)), k)

C9_TaperInteriorUnchanged ==
    /\ (prog = "taper_signal" /\ pc = "done") =>
          LET N == Len(y)
              n == (perc.num * N) \div perc.den
          IN  /\ Len(out) = N
              /\ \A k \in 1..N : (n < k /\ k <= N - n) => out[k] = y[k]
              /\ n = 0 => out = y
    /\ prog = "plot_win" =>
          \A l \in 1..Len(lines) :
              /\ Len(lines[l].edge) = 100
              /\ \A k \in 11..90 : lines[l].edge[k] = Scale

\* Witness of C9: a taper that changed an edge sample and left an interior.
C9_Witness ==
    /\ prog = "taper_signal" /\ pc = "done"
    /\ LET n == (perc.num * Len(y)) \div perc.den
       IN  /\ n >= 1 /\ Len(y) > 2 * n
           /\ out[1] # y[1]
           /\ y[n + 1] # 0

\* C10: taper_signal rejects a fraction above 0.5 with InvalidParameter and
\* returns nothing; it accepts every fraction in (0, 0.5], whose edges do not
\* overlap (2*floor(p*N) <= N), p = 0.5 on the 100 samples of plot_win included.
C10_TaperFractionRange ==
    /\ (prog = "taper_signal" /\ 2 * perc.num > perc.den) =>
          /\ pc # "done"
          /\ out = <<>>
          /\ pc = "failed" => failure = "InvalidParameter"
    /\ (prog = "taper_signal" /\ perc.num > 0 /\ 2 * perc.num <= perc.den) =>
          /\ pc # "failed"
          /\ 2 * ((perc.num * Len(y)) \div perc.den) <= Len(y)
          /\ pc = "done" => Len(out) = Len(y)
    /\ prog = "plot_win" =>
          /\ failure = "none"
          /\ \A l \in 1..Len(lines) : Len(lines[l].full) = 100

\* Witness of C10: a call with a fraction above one half that failed.
C10_Witness ==
    /\ prog = "taper_signal" /\ pc = "failed"
    /\ 2 * perc.num > perc.den
    /\ failure = "InvalidParameter"

\* A fraction a is below a fraction b (positive denominators).
FracLess(a, b) == a.num * b.den < b.num * a.den

\* C11: for every uniformly sampled series of at least 2 samples calc_spectrum
\* returns, and the frequency and scaled-power sequences it returns have the
\* same length (one entry per bin 1 .. N div 2), every frequency is positive
\* and each frequency is above the one before it.
C11_SpectrumShape ==
    prog = "plot_spectrum" =>
        /\ (Len(y) >= 2 /\ Len(x) = Len(y)) => ~(pc = "failed")
        /\ pc \in {"smooth", "saved"} =>
              /\ Len(freq) = Len(spec)
              /\ Len(freq) = Len(y) \div 2
              /\ \A k \in 1..Len(freq) : freq[k].num > 0 /\ freq[k].den > 0
              /\ \A k \in 1..(Len(freq) - 1) : FracLess(freq[k], freq[k + 1])

\* A spectrum of several bins, not all of them zero, was returned.
C11_Witness ==
    /\ prog = "plot_spectrum" /\ pc = "saved"
    /\ Len(freq) >= 2
    /\ \E k \in 1..Len(spec) : spec[k] > 0

\* C13: when plot_spectrum has drawn the smoothed spectrum, the window length
\* it passed to roll_mean is the width printed in the legend label, which is
\* the configured KERNEL_SIZE.
C13_LabelIsAppliedWidth ==
    (prog = "plot_spectrum" /\ pc = "saved") =>
        /\ spec_label = KERNEL_SIZE
        /\ calls[Len(calls)].win_len = spec_label

\* C14: under sample rates of at least 1 Hz, every window length plot_avg
\* hands to roll_mean (the reference and each window of the set) is at least 1
\* and at most the length of the series.
C14_WindowWithinSeries ==
    (InAvg /\ SAMPLE_RATE[device] >= 1) =>
        \A k \in 1..Len(calls) :
            calls[k].win_len >= 1 /\ calls[k].win_len <= Len(y)

\* C15: for a series of at least 2 samples and a sample rate of at least 1 Hz,
\* plot_avg raises nothing whatever the size of the Window Length Set (no
\* index past the colour list, no mismatch of ticks and tick labels), and what
\* it returns has one entry per window in every metric.
C15_AnySetSizeCompletes ==
    (InAvg /\ Len(y) >= 2 /\ SAMPLE_RATE[device] >= 1) =>
        /\ pc # "failed"
        /\ pc = "returned" =>
              \A m \in MetricNames : Len(error_metrics[m]) = Len(WINDOWS_MIN)

\* C16: when plot_spectrum_comp_all has saved the figure of at most 11
\* periods, the legend of panel [2, 3] has one entry for each of the four
\* series drawn per panel, every period has a panel of its own at
\* ax[i // 4, i % 4], and no period is drawn in the legend panel.
C16_LegendHasFourSeries ==
    (prog = "plot_spectrum_comp_all" /\ pc = "saved" /\ Len(all_puos) <= 11) =>
        /\ legend.at = LegendPanel
        /\ {legend.labs[k] : k \in 1..Len(legend.labs)}
              = {SeriesLabels[k] : k \in 1..Len(SeriesLabels)}
        /\ Len(legend.labs) = Len(SeriesLabels)
        /\ Len(panels) = Len(all_puos)
        /\ \A k \in 1..Len(panels) :
              /\ panels[k].at = <<(k - 1) \div GridCols, (k - 1) % GridCols>>
              /\ panels[k].at # LegendPanel
              /\ \A j \in 1..Len(panels) : panels[j].at = panels[k].at => j = k

\* The artifact of every worker that has saved is on disk as that worker
\* wrote it: no other invocation has replaced it.
ArtifactsIntact ==
    \A w \in Workers :
        wpc[w] = "saved" =>
            \A q \in savefig_paths(jobs[w], MITTELUNGSINTERVALL) :
                [path |-> q, by |-> w] \in files

\* The period and device an invocation is for.
PeriodDevice(c) == <<c.period, c.device>>

\* The argument a plot function puts into its path ("" when it puts none).
PathArgument(c) ==
    IF c.f \in SeriesPlots THEN c.fn
    ELSE IF c.f = "plot_spectrum_comp" THEN c.device
    ELSE IF c.f = "plot_patterns" THEN c.period
    ELSE IF c.f = "plot_turb_intensity" THEN c.which
    ELSE ""

\* C12 as stated: of two invocations for distinct periods/devices, run by
\* two workers in any interleaving, neither replaces the artifact of the
\* other.
C12_DistinctPeriodsDistinctPaths ==
    (prog = "workers" /\ PeriodDevice(jobs[1]) # PeriodDevice(jobs[2])) =>
        ArtifactsIntact

\* C12 (amended): two invocations of the same plot function whose
\* path arguments differ (fn; device for plot_spectrum_comp; period for
\* plot_patterns; which for plot_turb_intensity), run by two workers in any
\* interleaving, write to distinct paths and neither replaces the artifact
\* of the other.
C12_DistinctNamesDistinctPaths ==
    (/\ prog = "workers"
     /\ jobs[1].f = jobs[2].f
     /\ PathArgument(jobs[1]) # PathArgument(jobs[2])) =>
        /\ savefig_paths(jobs[1], MITTELUNGSINTERVALL)
              \cap savefig_paths(jobs[2], MITTELUNGSINTERVALL) = {}
        /\ ArtifactsIntact

\* Two plot_avg invocations with different file names have both saved, the
\* second worker first.
C12_Witness ==
    /\ prog = "workers"
    /\ jobs[1].f = "plot_avg" /\ jobs[2].f = "plot_avg"
    /\ jobs[1].fn # jobs[2].fn
    /\ wpc[1] = "saved" /\ wpc[2] = "saved"
    /\ Cardinality(files) = 2

====
